---------------------------- MODULE Spec2Model ----------------------------
(***************************************************************************)
(* Model of docs/chapter5/code/ddp_sft_full.py: the cosine learning-rate   *)
(* schedule get_lr, the start-up sequence of the script and the training   *)
(* loop train_epoch (gradient accumulation, logging, checkpointing).       *)
(*                                                                         *)
(* Learning rates are exact rationals <<numerator, denominator>> with a    *)
(* positive denominator; args.learning_rate is an integer number of 1e-5   *)
(* units (the default 2e-4 is 20).  math.cos is evaluated in fixed point   *)
(* with three decimals.  Floating-point rounding is not modelled.          *)
(***************************************************************************)
EXTENDS Integers, Sequences, FiniteSets, TLC

VARIABLES
    pc,             \* position of the control thread
    args,           \* the parsed settings (argparse namespace)
    hw_gpus,        \* number of accelerators physically present
    env,            \* os.environ["CUDA_VISIBLE_DEVICES"]: [set, ids]
    queries,        \* device queries made so far, each with the env it saw
    parallel,       \* whether the model is wrapped in DataParallel
    iter_per_epoch, \* len(train_loader)
    epoch,          \* loop variable of the epoch loop
    step,           \* loop variable of the batch loop
    call,           \* the last call of get_lr: [it, all, ret]
    calls,          \* number of calls of get_lr made by the loop
    lr,             \* param_group['lr'] of every parameter group
    fwd_lr,         \* the learning rate in force at the last forward pass
    mode,           \* "train" or "eval" (model.training)
    fwd_modes,      \* the modes in which forward passes have run
    write_modes,    \* the modes in which checkpoints have been written
    grad_passes,    \* backward passes accumulated in .grad since the last reset
    applied,        \* passes held by the gradients at the last optimizer step
    opt_steps,      \* optimizer steps taken
    resets,         \* gradient resets (zero_grad) done
    logged,         \* the learning rate of the last log line
    files,          \* names of the checkpoint files on disk
    writes,         \* names written during the current batch, in order
    last_write      \* the last checkpoint write: [kind, name, fresh]

vars == <<pc, args, hw_gpus, env, queries, parallel, iter_per_epoch, epoch,
          step, call, calls, lr, fwd_lr, mode, fwd_modes, write_modes,
          grad_passes, applied, opt_steps, resets, logged, files, writes, last_write>>

---------------------------------------------------------------------------
(* Bounds of the model *)

MaxIt == 8          \* get_lr: largest position it
MaxAll == 6         \* get_lr: largest total all
MaxWarmup == 6      \* get_lr: largest warmup_iters
MaxLr == 2          \* largest learning rate, in 1e-5 units

---------------------------------------------------------------------------
(* Rational arithmetic on <<n, d>>, d > 0 *)

Frac(n, d) == IF d < 0 THEN <<-n, -d>> ELSE <<n, d>>
FracAdd(a, b) == <<a[1] * b[2] + b[1] * a[2], a[2] * b[2]>>
FracSub(a, b) == <<a[1] * b[2] - b[1] * a[2], a[2] * b[2]>>
FracMul(a, b) == <<a[1] * b[1], a[2] * b[2]>>
FracLe(a, b) == a[1] * b[2] <= b[1] * a[2]
FracLt(a, b) == a[1] * b[2] < b[1] * a[2]
FracEq(a, b) == a[1] * b[2] = b[1] * a[2]

(* math.cos(math.pi * n/d) for 0 <= n <= d, in units of 1/Scale.  The     *)
(* Taylor series of cos on [0, pi/2], reflected for the second half;      *)
(* exact at n = 0 (1.0) and n = d (-1.0), as math.cos is.                 *)
Scale == 1000
PiScaled == 3142

CosQuarter(n, d) ==
    LET t  == (PiScaled * n) \div d
        t2 == (t * t) \div Scale
        t4 == (t2 * t2) \div Scale
        t6 == (t4 * t2) \div Scale
        t8 == (t6 * t2) \div Scale
    IN  Scale - (t2 \div 2) + (t4 \div 24) - (t6 \div 720) + (t8 \div 40320)

CosPi(n, d) == IF 2 * n <= d THEN CosQuarter(n, d) ELSE -CosQuarter(d - n, d)

---------------------------------------------------------------------------
(* get_lr(it, all), lines 28-49.  a is args. *)

Ok(branch, v) == [kind |-> "ok", branch |-> branch, val |-> v]
Raise(e) == [kind |-> e, branch |-> "cosine", val |-> <<0, 1>>]

\* line 34: min_lr = args.learning_rate / 10
MinLr(a) == Frac(a.learning_rate, 10)

\* line 37: args.learning_rate * it / warmup_iters
WarmupLr(it, a) == Frac(a.learning_rate * it, a.warmup_iters)

\* line 46: (it - warmup_iters) / (lr_decay_iters - warmup_iters)
DecayRatio(it, all, a) == Frac(it - a.warmup_iters, all - a.warmup_iters)

\* line 47: assert 0 <= decay_ratio <= 1
RatioInRange(r) == FracLe(<<0, 1>>, r) /\ FracLe(r, <<1, 1>>)

\* Mutant of Coeff: the factor 0.5 is dropped
Coeff_NoHalf(r) == FracAdd(<<1, 1>>, <<CosPi(r[1], r[2]), Scale>>)

\* line 48: coeff = 0.5 * (1.0 + math.cos(math.pi * decay_ratio))
Coeff(r) == FracMul(<<1, 2>>, FracAdd(<<1, 1>>, <<CosPi(r[1], r[2]), Scale>>))

\* lines 46-49: the cosine branch
CosineLr(it, all, a) ==
    IF all - a.warmup_iters = 0 THEN Raise("ZeroDivisionError")
    ELSE LET r == DecayRatio(it, all, a) IN
         IF ~RatioInRange(r) THEN Raise("AssertionError")
         ELSE Ok("cosine",
                 FracAdd(MinLr(a),
                         FracMul(Coeff(r),
                                 FracSub(<<a.learning_rate, 1>>, MinLr(a)))))

\* Mutant of get_lr: the floor test is missing
get_lr_NoFloor(it, all, a) ==
    IF it < a.warmup_iters THEN Ok("warmup", WarmupLr(it, a))
    ELSE CosineLr(it, all, a)

\* Mutant of get_lr: the floor test comes before the warmup test
get_lr_FloorFirst(it, all, a) ==
    IF it > all THEN Ok("floor", MinLr(a))
    ELSE IF it < a.warmup_iters THEN Ok("warmup", WarmupLr(it, a))
    ELSE CosineLr(it, all, a)

get_lr(it, all, a) ==
    IF it < a.warmup_iters THEN Ok("warmup", WarmupLr(it, a))
    ELSE IF it > all THEN Ok("floor", MinLr(a))
    ELSE CosineLr(it, all, a)

NoRet == [kind |-> "none", branch |-> "none", val |-> <<0, 1>>]

---------------------------------------------------------------------------
(* Bounds of the training runs *)

MaxEpochs == 2          \* largest --epochs
MaxIterPerEpoch == 3    \* largest len(train_loader)
MaxAccum == 2           \* largest --accumulation_steps
MaxTrainWarmup == 2     \* largest --warmup_iters of a training run
MaxSaveInterval == 2    \* largest --save_interval
MaxGpus == 2            \* largest number of accelerators present
LongEpochs == 2         \* --epochs of the long runs

(* Program constants *)
DefaultLr == 20             \* --learning_rate default 2e-4, in 1e-5 units
DefaultAccum == 8           \* --accumulation_steps default
DefaultLogInterval == 100   \* --log_interval default
DefaultSaveInterval == 1000 \* --save_interval default
PeriodicInterval == 20000   \* the fixed cadence of line 113

LogIntervals == {1, 2}
GpuLists == {{0}, 0..7}     \* --gpus "0" and the default "0,1,2,3,4,5,6,7"

\* lines 193-196: ModelConfig(dim=1024, n_layers=18); vocab_size keeps the
\* default of ModelConfig, which this file does not set.
lm_config == [dim |-> 1024, n_layers |-> 18, vocab_size |-> "default"]

\* Mutant of CkpName: the step suffix is left out of the path
CkpName_NoSuffix(suffix) ==
    [dir |-> "save_dir", dim |-> lm_config.dim, n_layers |-> lm_config.n_layers,
     vocab_size |-> lm_config.vocab_size, suffix |-> <<>>]

\* lines 105 and 115: the checkpoint path; suffix is <<>> or <<step + 1>>
CkpName(suffix) ==
    [dir |-> "save_dir", dim |-> lm_config.dim, n_layers |-> lm_config.n_layers,
     vocab_size |-> lm_config.vocab_size, suffix |-> suffix]

\* The devices a query sees under a value of CUDA_VISIBLE_DEVICES
Visible(e) == IF ~e.set THEN hw_gpus
              ELSE Cardinality(e.ids \cap (0..(hw_gpus - 1)))

Query(fn) == [fn |-> fn, env_set |-> env.set]

---------------------------------------------------------------------------
(* Initial states *)

Blank ==
    /\ env = [set |-> FALSE, ids |-> {}]
    /\ queries = <<>>
    /\ parallel = FALSE
    /\ epoch = 0
    /\ step = 0
    /\ calls = 0
    /\ lr = <<0, 1>>
    /\ fwd_lr = <<0, 1>>
    /\ mode = "none"
    /\ fwd_modes = {}
    /\ write_modes = {}
    /\ grad_passes = 0
    /\ applied = 0
    /\ opt_steps = 0
    /\ resets = 0
    /\ logged = <<0, 1>>
    /\ files = {}
    /\ writes = <<>>
    /\ last_write = [kind |-> "none", name |-> CkpName(<<>>), fresh |-> TRUE]

Settings(E, L, A, W, G, S, P) ==
    [epochs : E, learning_rate : L, accumulation_steps : A, warmup_iters : W,
     log_interval : G, save_interval : S, gpus : P, device : {"unparsed"}]

\* The script as started from the command line, lines 154-173
InitShort ==
    /\ pc = "parse"
    /\ args \in Settings(1..MaxEpochs, {DefaultLr}, 1..MaxAccum,
                         0..MaxTrainWarmup, LogIntervals, 1..MaxSaveInterval,
                         GpuLists)
    /\ hw_gpus \in 0..MaxGpus
    /\ iter_per_epoch \in 0..MaxIterPerEpoch
    /\ call = [it |-> 0, all |-> 0, ret |-> NoRet]
    /\ Blank

\* Runs long enough for the fixed cadence of line 113 to fire
InitLong ==
    /\ pc = "parse"
    /\ args \in Settings({LongEpochs}, {DefaultLr}, {DefaultAccum}, {0},
                         {DefaultLogInterval}, {3, DefaultSaveInterval},
                         {0..7})
    /\ hw_gpus = 1
    /\ iter_per_epoch = PeriodicInterval
    /\ call = [it |-> 0, all |-> 0, ret |-> NoRet]
    /\ Blank

Init == InitShort \/ InitLong

\* A single call get_lr(it, all) with arbitrary arguments
InitLr ==
    /\ pc = "call"
    /\ args \in Settings({1}, 0..MaxLr, {1}, 0..MaxWarmup, {1}, {1}, {{0}})
    /\ hw_gpus = 0
    /\ iter_per_epoch = 0
    /\ call \in [it : 0..MaxIt, all : 0..MaxAll, ret : {NoRet}]
    /\ Blank

---------------------------------------------------------------------------
(* Start-up, lines 154-226 *)

\* lines 155-173: the default of --device queries the accelerator (line 160)
ParseArgs ==
    /\ pc = "parse"
    /\ queries' = Append(queries, Query("is_available"))
    /\ args' = [args EXCEPT !.device =
                   IF Visible(env) > 0 THEN "cuda:0" ELSE "cpu"]
    /\ pc' = "set_gpus"
    /\ UNCHANGED <<calls, hw_gpus, env, parallel, iter_per_epoch, epoch, step, call,
                   lr, fwd_lr, mode, fwd_modes, write_modes, grad_passes,
                   applied, opt_steps, resets, logged, files, writes,
                   last_write>>

\* lines 176-182 (args.gpus is a string, never None)
SetGpus ==
    /\ pc = "set_gpus"
    /\ env' = [set |-> TRUE, ids |-> args.gpus]
    /\ queries' = Append(queries, [fn |-> "is_available", env_set |-> env'.set])
    /\ args' = [args EXCEPT !.device =
                   IF Visible(env') > 0 THEN "cuda:0" ELSE "cpu"]
    /\ pc' = "init_model"
    /\ UNCHANGED <<calls, hw_gpus, parallel, iter_per_epoch, epoch, step, call,
                   lr, fwd_lr, mode, fwd_modes, write_modes, grad_passes,
                   applied, opt_steps, resets, logged, files, writes,
                   last_write>>

\* line 207, lines 122-151: a fresh module is in training mode
InitModel ==
    /\ pc = "init_model"
    /\ queries' = Append(queries, Query("device_count"))
    /\ parallel' = (Visible(env) > 1)
    /\ mode' = "train"
    /\ pc' = "optimizer"
    /\ UNCHANGED <<calls, args, hw_gpus, env, iter_per_epoch, epoch, step, call,
                   lr, fwd_lr, fwd_modes, write_modes, grad_passes,
                   applied, opt_steps, resets, logged, files, writes,
                   last_write>>

\* lines 221-225: optimizer = AdamW(..., lr=args.learning_rate)
MakeOptimizer ==
    /\ pc = "optimizer"
    /\ lr' = <<args.learning_rate, 1>>
    /\ grad_passes' = 0
    /\ epoch' = 0
    /\ pc' = "epoch"
    /\ UNCHANGED <<calls, args, hw_gpus, env, queries, parallel, iter_per_epoch,
                   step, call, fwd_lr, mode, fwd_modes, write_modes,
                   applied, opt_steps, resets, logged, files, writes,
                   last_write>>

\* line 226: for epoch in range(args.epochs): train_epoch(epoch)
EnterEpoch ==
    /\ pc = "epoch"
    /\ epoch < args.epochs
    /\ step' = 0
    /\ pc' = "batch"
    /\ UNCHANGED <<calls, args, hw_gpus, env, queries, parallel, iter_per_epoch,
                   epoch, call, lr, fwd_lr, mode, fwd_modes, write_modes,
                   grad_passes, applied, opt_steps, resets, logged, files,
                   writes, last_write>>

Finish ==
    /\ pc = "epoch"
    /\ epoch >= args.epochs
    /\ pc' = "done"
    /\ UNCHANGED <<calls, args, hw_gpus, env, queries, parallel, iter_per_epoch,
                   epoch, step, call, lr, fwd_lr, mode, fwd_modes,
                   write_modes, grad_passes, applied, opt_steps, resets,
                   logged, files, writes, last_write>>

---------------------------------------------------------------------------
(* train_epoch(epoch), lines 51-119 *)

\* Mutant of Position: the step within the epoch instead of the global step
Position_StepOnly == step

\* line 60: the position and the total handed to get_lr
Position == epoch * iter_per_epoch + step
Total == args.epochs * iter_per_epoch

\* lines 54-62: fetch the next batch, compute the learning rate and store it
\* in every parameter group; an exception of get_lr ends the process
SetLr ==
    /\ pc = "batch"
    /\ step < iter_per_epoch
    /\ LET ret == get_lr(Position, Total, args) IN
         /\ call' = [it |-> Position, all |-> Total, ret |-> ret]
         /\ lr' = IF ret.kind = "ok" THEN ret.val ELSE lr
         /\ pc' = IF ret.kind = "ok" THEN "forward" ELSE "crashed"
    /\ calls' = calls + 1
    /\ writes' = <<>>
    /\ UNCHANGED <<args, hw_gpus, env, queries, parallel, iter_per_epoch,
                   epoch, step, fwd_lr, mode, fwd_modes, write_modes,
                   grad_passes, applied, opt_steps, resets, logged, files,
                   last_write>>

\* line 54: the loader is exhausted, train_epoch returns
EndEpoch ==
    /\ pc = "batch"
    /\ step >= iter_per_epoch
    /\ epoch' = epoch + 1
    /\ pc' = "epoch"
    /\ UNCHANGED <<calls, args, hw_gpus, env, queries, parallel, iter_per_epoch,
                   step, call, lr, fwd_lr, mode, fwd_modes, write_modes,
                   grad_passes, applied, opt_steps, resets, logged, files,
                   writes, last_write>>

\* lines 64-72: forward pass and backward pass, which adds to the gradients
Forward ==
    /\ pc = "forward"
    /\ fwd_lr' = lr
    /\ fwd_modes' = fwd_modes \cup {mode}
    /\ grad_passes' = grad_passes + 1
    /\ pc' = "update"
    /\ UNCHANGED <<calls, args, hw_gpus, env, queries, parallel, iter_per_epoch,
                   epoch, step, call, lr, mode, write_modes, applied,
                   opt_steps, resets, logged, files, writes, last_write>>

\* line 75
StepDue == (step + 1) % args.accumulation_steps = 0

\* lines 75-82: clip, optimizer step and zero_grad on the cadence
Update ==
    /\ pc = "update"
    /\ IF StepDue
       THEN /\ applied' = grad_passes
            /\ opt_steps' = opt_steps + 1
            /\ grad_passes' = 0
            /\ resets' = resets + 1
       ELSE UNCHANGED <<applied, opt_steps, grad_passes, resets>>
    /\ pc' = "log"
    /\ UNCHANGED <<calls, args, hw_gpus, env, queries, parallel, iter_per_epoch,
                   epoch, step, call, lr, fwd_lr, mode, fwd_modes,
                   write_modes, logged, files, writes, last_write>>

\* lines 85-100: the log line reads optimizer.param_groups[-1]['lr']
Log ==
    /\ pc = "log"
    /\ logged' = IF step % args.log_interval = 0 THEN lr ELSE logged
    /\ pc' = "save"
    /\ UNCHANGED <<calls, args, hw_gpus, env, queries, parallel, iter_per_epoch,
                   epoch, step, call, lr, fwd_lr, mode, fwd_modes,
                   write_modes, grad_passes, applied, opt_steps, resets,
                   files, writes, last_write>>

\* line 103
SaveDue == (step + 1) % args.save_interval = 0
\* line 113
PeriodicDue == (step + 1) % PeriodicInterval = 0

\* torch.save(state_dict, ckp), lines 109 and 118
Save(kind, name) ==
    /\ files' = files \cup {name}
    /\ writes' = Append(writes, name)
    /\ last_write' = [kind |-> kind, name |-> name, fresh |-> name \notin files]
    /\ write_modes' = write_modes \cup {mode}

\* lines 103-104: model.eval() when the save interval is due
SaveEval ==
    /\ pc = "save"
    /\ mode' = IF SaveDue THEN "eval" ELSE mode
    /\ pc' = IF SaveDue THEN "save_write" ELSE "periodic"
    /\ UNCHANGED <<calls, args, hw_gpus, env, queries, parallel, iter_per_epoch,
                   epoch, step, call, lr, fwd_lr, fwd_modes, write_modes,
                   grad_passes, applied, opt_steps, resets, logged, files,
                   writes, last_write>>

\* lines 105-109
SaveWrite ==
    /\ pc = "save_write"
    /\ Save("interval", CkpName(<<>>))
    /\ pc' = "save_train"
    /\ UNCHANGED <<calls, args, hw_gpus, env, queries, parallel, iter_per_epoch,
                   epoch, step, call, lr, fwd_lr, mode, fwd_modes,
                   grad_passes, applied, opt_steps, resets, logged>>

\* Mutant of SaveTrain: model.train() is not called after the write
SaveTrain_Missing ==
    /\ pc = "save_train"
    /\ pc' = "periodic"
    /\ UNCHANGED <<calls, args, hw_gpus, env, queries, parallel, iter_per_epoch,
                   epoch, step, call, lr, fwd_lr, mode, fwd_modes, write_modes,
                   grad_passes, applied, opt_steps, resets, logged, files,
                   writes, last_write>>

\* line 110
SaveTrain ==
    /\ pc = "save_train"
    /\ mode' = "train"
    /\ pc' = "periodic"
    /\ UNCHANGED <<calls, args, hw_gpus, env, queries, parallel, iter_per_epoch,
                   epoch, step, call, lr, fwd_lr, fwd_modes, write_modes,
                   grad_passes, applied, opt_steps, resets, logged, files,
                   writes, last_write>>

\* lines 113-114; when the cadence is not due the batch is over
PeriodicEval ==
    /\ pc = "periodic"
    /\ mode' = IF PeriodicDue THEN "eval" ELSE mode
    /\ pc' = IF PeriodicDue THEN "periodic_write" ELSE "batch"
    /\ step' = IF PeriodicDue THEN step ELSE step + 1
    /\ UNCHANGED <<calls, args, hw_gpus, env, queries, parallel, iter_per_epoch,
                   epoch, call, lr, fwd_lr, fwd_modes, write_modes,
                   grad_passes, applied, opt_steps, resets, logged, files,
                   writes, last_write>>

\* lines 115-118
PeriodicWrite ==
    /\ pc = "periodic_write"
    /\ Save("periodic", CkpName(<<step + 1>>))
    /\ pc' = "periodic_train"
    /\ UNCHANGED <<calls, args, hw_gpus, env, queries, parallel, iter_per_epoch,
                   epoch, step, call, lr, fwd_lr, mode, fwd_modes,
                   grad_passes, applied, opt_steps, resets, logged>>

\* line 119; the batch is over
PeriodicTrain ==
    /\ pc = "periodic_train"
    /\ mode' = "train"
    /\ step' = step + 1
    /\ pc' = "batch"
    /\ UNCHANGED <<calls, args, hw_gpus, env, queries, parallel, iter_per_epoch,
                   epoch, call, lr, fwd_lr, fwd_modes, write_modes,
                   grad_passes, applied, opt_steps, resets, logged, files,
                   writes, last_write>>

---------------------------------------------------------------------------
(* A single call of get_lr with the arguments drawn by InitLr *)

CallGetLr ==
    /\ pc = "call"
    /\ call' = [call EXCEPT !.ret = get_lr(call.it, call.all, args)]
    /\ pc' = "returned"
    /\ UNCHANGED <<calls, args, hw_gpus, env, queries, parallel, iter_per_epoch,
                   epoch, step, lr, fwd_lr, mode, fwd_modes, write_modes,
                   grad_passes, applied, opt_steps, resets, logged, files,
                   writes, last_write>>

---------------------------------------------------------------------------
(* Specifications *)

Next ==
    \/ ParseArgs \/ SetGpus \/ InitModel \/ MakeOptimizer
    \/ EnterEpoch \/ Finish \/ SetLr \/ EndEpoch
    \/ Forward \/ Update \/ Log
    \/ SaveEval \/ SaveWrite \/ SaveTrain
    \/ PeriodicEval \/ PeriodicWrite \/ PeriodicTrain

NextLr == CallGetLr

Spec == Init /\ [][Next]_vars
SpecLr == InitLr /\ [][NextLr]_vars

---------------------------------------------------------------------------
(* Properties of get_lr, checked under SpecLr *)

Returned == pc = "returned"
BaseLr == <<args.learning_rate, 1>>

C2_Original ==
    (Returned /\ call.it > call.all)
        => /\ call.ret.kind = "ok"
           /\ FracEq(call.ret.val, <<args.learning_rate, 10>>)

\* C2 amended: for every it > all with it >= warmup_iters, get_lr returns
\* exactly base_lr/10; for it < warmup_iters the warmup test comes first and
\* the value is base_lr*it/warmup_iters, also when it > all.
C2_Floor ==
    (Returned /\ call.it > call.all)
        => /\ call.ret.kind = "ok"
           /\ call.it >= args.warmup_iters
                 => /\ call.ret.branch = "floor"
                    /\ FracEq(call.ret.val, <<args.learning_rate, 10>>)
           /\ call.it < args.warmup_iters
                 => /\ call.ret.branch = "warmup"
                    /\ FracEq(call.ret.val,
                              <<args.learning_rate * call.it, args.warmup_iters>>)

\* A call past the total and past a non-empty warmup
C2_Witness ==
    /\ Returned /\ call.it > call.all /\ call.it >= args.warmup_iters
    /\ args.warmup_iters > call.all /\ args.learning_rate > 0
    /\ call.ret.branch = "floor"

\* C3: for 0 <= it < warmup_iters, get_lr returns base_lr*it/warmup_iters
\* whatever all is, and get_lr(it) <= get_lr(it+1) while it+1 < warmup_iters.
C3_Warmup ==
    (Returned /\ call.it < args.warmup_iters)
        => /\ call.ret.kind = "ok"
           /\ FracEq(call.ret.val,
                     <<args.learning_rate * call.it, args.warmup_iters>>)
           /\ call.it + 1 < args.warmup_iters
                 => /\ get_lr(call.it + 1, call.all, args).kind = "ok"
                    /\ FracLe(call.ret.val,
                              get_lr(call.it + 1, call.all, args).val)

\* A warmup call past the total, with a successor still in the warmup
C3_Witness ==
    /\ Returned /\ call.it > 0 /\ call.it + 1 < args.warmup_iters
    /\ call.it > call.all /\ args.learning_rate > 0
    /\ call.ret.branch = "warmup"

\* C8 as stated: whenever the cosine branch is reached (warmup_iters <= it
\* <= all) the decay ratio is defined and within [0, 1]: nothing is raised.
C8_Claim ==
    (Returned /\ call.it >= args.warmup_iters /\ call.it <= call.all)
        => /\ call.ret.kind = "ok"
           /\ RatioInRange(DecayRatio(call.it, call.all, args))

---------------------------------------------------------------------------
(* Properties of the script, checked under Spec *)

InBatch == pc \in {"forward", "update", "log", "save", "save_write",
                   "save_train", "periodic", "periodic_write",
                   "periodic_train"}
Writing == pc \in {"save_write", "save_train", "periodic_write",
                   "periodic_train"}

\* C4 as stated: optimizer step and gradient reset occur together, and each
\* optimizer step applies gradients of exactly accumulation_steps passes.
C4_Claim ==
    /\ opt_steps = resets
    /\ opt_steps > 0 => applied = args.accumulation_steps

\* C5 as stated: every periodic checkpoint write targets a name that no
\* earlier write of the run has targeted.
C5_Claim == last_write.kind = "periodic" => last_write.fresh

\* The writes the batch with index s makes, in order (lines 103-119)
ExpectedWrites(s) ==
    (IF (s + 1) % args.save_interval = 0
        THEN <<[dir |-> "save_dir", dim |-> 1024, n_layers |-> 18,
                vocab_size |-> "default", suffix |-> <<>>]>>
        ELSE <<>>)
    \o (IF (s + 1) % 20000 = 0
        THEN <<[dir |-> "save_dir", dim |-> 1024, n_layers |-> 18,
                vocab_size |-> "default", suffix |-> <<s + 1>>]>>
        ELSE <<>>)

\* C6: a batch in which both cadences are due makes two writes, the
\* un-suffixed name first and the _step<step+1> name second, to distinct
\* names; a batch in which one cadence is due makes exactly that write.
C6_BothWritten ==
    (pc = "batch" /\ step > 0)
        => /\ writes = ExpectedWrites(step - 1)
           /\ \A i \in 1..Len(writes) : writes[i] \in files
           /\ Len(writes) = 2 => writes[1] # writes[2]
           /\ Cardinality({writes[i] : i \in 1..Len(writes)}) = Len(writes)

\* The end of a batch in which both cadences fired
C6_Witness ==
    /\ pc = "batch" /\ step > 0
    /\ step % args.save_interval = 0 /\ step % PeriodicInterval = 0
    /\ Len(writes) = 2

\* C7 as stated: no device query is made before CUDA_VISIBLE_DEVICES is set.
C7_Claim == \A i \in 1..Len(queries) : queries[i].env_set

\* C9: the model is in evaluation mode exactly from model.eval() to
\* model.train() around a checkpoint write; every forward pass runs in
\* training mode and every write in evaluation mode.
C9_Modes ==
    /\ fwd_modes \subseteq {"train"}
    /\ write_modes \subseteq {"eval"}
    /\ mode = "eval" <=> Writing
    /\ (pc \in {"batch", "epoch", "done"} \/ (InBatch /\ ~Writing))
           => mode = "train"

\* The second write of a batch in which both cadences fire: training mode
\* was restored after the first write and left again for the second
C9_Witness ==
    /\ pc = "periodic_write" /\ Len(writes) = 1 /\ mode = "eval"
    /\ fwd_modes = {"train"} /\ write_modes = {"eval"}

\* C10: the positions handed to get_lr are 0, 1, 2, ... in order, one per
\* batch, all below the total epochs*iter_per_epoch; the value computed for
\* a batch is in every parameter group during the batch's forward pass and
\* optimizer step.
C10_Positions ==
    /\ calls <= args.epochs * iter_per_epoch
    /\ InBatch => /\ call.it = calls - 1
                  /\ call.all = args.epochs * iter_per_epoch
                  /\ call.it < call.all
                  /\ call.ret.kind = "ok"
                  /\ lr = call.ret.val
                  /\ call.ret = get_lr(calls - 1, call.all, args)
    /\ (InBatch /\ pc # "forward") => fwd_lr = call.ret.val
    /\ pc = "batch" => calls = epoch * iter_per_epoch + step
    /\ pc = "done" => calls = args.epochs * iter_per_epoch

\* The first batch of the second epoch
C10_Witness ==
    /\ pc = "update" /\ epoch = 1 /\ step = 0 /\ iter_per_epoch = 3
    /\ call.it = 3

\* No call of get_lr made by the loop raises
TrainNeverRaises == pc # "crashed"

===========================================================================
